---- MODULE Spec2Model ----
(***************************************************************************)
(* A model of etl.py: the Song-Catalog Loader (process_song_data), the     *)
(* Event-Log Loader (process_log_data) and the job entry point (main).     *)
(*                                                                         *)
(* A DataFrame is a sequence of rows (duplicates are possible until a      *)
(* dropDuplicates / distinct), a row is a record, SQL NULL is the value    *)
(* NULL, and DoubleType values are decimal literals kept as strings (the   *)
(* code only ever compares them for equality).  TLC's integers are 32 bit, *)
(* so the LongType column ts is kept as two base-10^6 limbs.               *)
(***************************************************************************)
EXTENDS Integers, Sequences, FiniteSets, TLC

VARIABLES
    song_data,   \* the rows under input_data + 'song_data/*/*/*/*.json'
    log_data,    \* the rows under input_data + 'log_data/*/*/*.json'
    pc,          \* the statement of main the run is about to execute
    df_song,     \* process_song_data's df_song
    view,        \* the session's temp view 'df_song_table'
    df,          \* process_log_data's df
    out,         \* the five parquet directories under output_data
    out0,        \* history: out as it was when the current run started
    written,     \* history: the tables the current run has written, in order
    failed_at,   \* history: the statement that raised ("none": no failure)
    runs         \* how many times main has been started

vars == <<song_data, log_data, pc, df_song, view, df, out, out0, written,
          failed_at, runs>>

\* ------------------------------------------------------------------ bounds

\* the longest song_data / log_data input of the single-run specifications
MaxSongRows == 2
MaxLogRows == 2
\* how many times the operator starts main in Spec
MaxRuns == 2

\* ------------------------------------------------------------ SQL values

NULL == "null"

NoView == [registered |-> FALSE, rows |-> <<>>]

\* Column == Column of the engine: NULL on either side is never equal
SqlEq(a, b) == a # NULL /\ b # NULL /\ a = b

\* ---------------------------------------------------- DataFrame operators

\* a faulty variant of DropDuplicates: the deduplication left out
DropDuplicatesOmitted(s) == s

\* df.dropDuplicates() / drop_duplicates() / distinct(): exact row equality
\* over every column, NULLs equal to each other
DropDuplicates(s) ==
    LET F[i \in 0..Len(s)] ==
            IF i = 0 THEN <<>>
            ELSE IF \E j \in 1..Len(F[i-1]) : F[i-1][j] = s[i]
                 THEN F[i-1]
                 ELSE Append(F[i-1], s[i])
    IN  F[Len(s)]

\* the rows of a DataFrame, as a set
Rows(s) == {s[i] : i \in 1..Len(s)}

\* ------------------------------------------------------- the song catalog

\* songs_table = df_song.select('song_id','title','artist_id','year','duration')
SongCols(r) ==
    [song_id |-> r.song_id, title |-> r.title, artist_id |-> r.artist_id,
     year |-> r.year, duration |-> r.duration]

SongsTable(d) == DropDuplicates([i \in 1..Len(d) |-> SongCols(d[i])])

\* artists_table = df_song.select('artist_id','artist_name','artist_location',
\*                                'artist_latitude','artist_longitude')
ArtistCols(r) ==
    [artist_id |-> r.artist_id, artist_name |-> r.artist_name,
     artist_location |-> r.artist_location,
     artist_latitude |-> r.artist_latitude,
     artist_longitude |-> r.artist_longitude]

ArtistsTable(d) == DropDuplicates([i \in 1..Len(d) |-> ArtistCols(d[i])])

\* SELECT DISTINCT song_id, title, artist_id, artist_name, duration
\*   FROM df_song_table
SongDfCols(r) ==
    [song_id |-> r.song_id, title |-> r.title, artist_id |-> r.artist_id,
     artist_name |-> r.artist_name, duration |-> r.duration]

SongDf(v) == DropDuplicates([i \in 1..Len(v) |-> SongDfCols(v[i])])

\* ---------------------------------------------------------- the event log

\* a faulty variant of IsNextSong: the page filter left out
IsNextSongOmitted(e) == TRUE

\* df.page == 'NextSong'
IsNextSong(e) == SqlEq(e.page, "NextSong")

\* df = df.filter(df.page == 'NextSong')
NextSongEvents(d) == SelectSeq(d, IsNextSong)

\* df.select('userId', 'firstName', 'lastName', 'gender', 'level')
UserCols(e) ==
    [userId |-> e.userId, firstName |-> e.firstName, lastName |-> e.lastName,
     gender |-> e.gender, level |-> e.level]

UsersTable(d) == DropDuplicates([i \in 1..Len(d) |-> UserCols(d[i])])

\* --------------------------------------------------------------- timestamps

\* int(x)/1000 of the LongType ts = hi * 10^6 + lo: whole seconds, and the
\* milliseconds of the fraction
TsSeconds(ts) == ts.hi * 1000 + ts.lo \div 1000
TsMillis(ts) == ts.lo % 1000

\* the proleptic Gregorian date of day z since 1970-01-01
CivilFromDays(z) ==
    LET zz  == z + 719468
        era == zz \div 146097
        doe == zz - era * 146097
        yoe == (doe - doe \div 1460 + doe \div 36524 - doe \div 146096) \div 365
        doy == doe - (365 * yoe + yoe \div 4 - yoe \div 100)
        mp  == (5 * doy + 2) \div 153
        d   == doy - (153 * mp + 2) \div 5 + 1
        m   == IF mp < 10 THEN mp + 3 ELSE mp - 9
        y   == yoe + era * 400 + (IF m <= 2 THEN 1 ELSE 0)
    IN  [year |-> y, month |-> m, day |-> d]

\* the day since 1970-01-01 of a proleptic Gregorian date
DaysFromCivil(y, m, d) ==
    LET yy  == IF m <= 2 THEN y - 1 ELSE y
        era == yy \div 400
        yoe == yy - era * 400
        doy == (153 * (IF m > 2 THEN m - 3 ELSE m + 9) + 2) \div 5 + d - 1
        doe == yoe * 365 + yoe \div 4 - yoe \div 100 + doy
    IN  era * 146097 + doe - 719468

\* a faulty variant of utcfromtimestamp: datetime.fromtimestamp on a driver
\* five hours west of UTC
FromTimestampLocal(ts) ==
    LET t == TsSeconds(ts) - 18000
        c == CivilFromDays(t \div 86400)
        s == t % 86400
    IN  [year |-> c.year, month |-> c.month, day |-> c.day,
         hour |-> s \div 3600, minute |-> (s % 3600) \div 60,
         second |-> s % 60, millisecond |-> TsMillis(ts)]

\* datetime.utcfromtimestamp(int(x)/1000): a naive datetime holding the UTC
\* calendar fields
utcfromtimestamp(ts) ==
    LET t == TsSeconds(ts)
        c == CivilFromDays(t \div 86400)
        s == t % 86400
    IN  [year |-> c.year, month |-> c.month, day |-> c.day,
         hour |-> s \div 3600, minute |-> (s % 3600) \div 60,
         second |-> s % 60, millisecond |-> TsMillis(ts)]

\* TimestampType's conversion of the naive datetime the udf returns to the
\* engine's instant (seconds since the epoch and the fraction), the driver
\* and the session both in UTC
ToInternal(dt) ==
    [sec |-> DaysFromCivil(dt.year, dt.month, dt.day) * 86400
             + dt.hour * 3600 + dt.minute * 60 + dt.second,
     ms  |-> dt.millisecond]

\* get_timestamp = udf(lambda x: datetime.utcfromtimestamp(int(x)/1000),
\*                     TimestampType())
get_timestamp(ts) == ToInternal(utcfromtimestamp(ts))

\* the engine's calendar functions of a timestamp
hour(t) == (t.sec % 86400) \div 3600
dayofmonth(t) == CivilFromDays(t.sec \div 86400).day
month(t) == CivilFromDays(t.sec \div 86400).month
year(t) == CivilFromDays(t.sec \div 86400).year
\* 1 = Sunday ... 7 = Saturday; 1970-01-01 was a Thursday
dayofweek(t) == ((t.sec \div 86400 + 4) % 7) + 1

\* the number of ISO-8601 weeks of year y
IsoWeeksInYear(y) ==
    LET p(x) == (x + x \div 4 - x \div 100 + x \div 400) % 7
    IN  IF p(y) = 4 \/ p(y - 1) = 3 THEN 53 ELSE 52

\* the ISO-8601 week number
weekofyear(t) ==
    LET z   == t.sec \div 86400
        c   == CivilFromDays(z)
        wd  == ((z + 3) % 7) + 1
        doy == z - DaysFromCivil(c.year, 1, 1) + 1
        w   == (doy - wd + 10) \div 7
    IN  IF w < 1 THEN IsoWeeksInYear(c.year - 1)
        ELSE IF w > IsoWeeksInYear(c.year) THEN 1
        ELSE w

\* df = df.withColumn('start_time', get_timestamp('ts'))
WithStartTime(e) == e @@ [start_time |-> get_timestamp(e.ts)]

AddStartTime(d) == [i \in 1..Len(d) |-> WithStartTime(d[i])]

\* .withColumn('hour', hour('start_time')) ... .select('start_time', 'hour',
\*   'day', 'week', 'month', 'year', 'weekday')
TimeCols(e) ==
    [start_time |-> e.start_time, hour |-> hour(e.start_time),
     day |-> dayofmonth(e.start_time), week |-> weekofyear(e.start_time),
     month |-> month(e.start_time), year |-> year(e.start_time),
     weekday |-> dayofweek(e.start_time)]

TimeTable(d) == DropDuplicates([i \in 1..Len(d) |-> TimeCols(d[i])])

\* ------------------------------------------------------------ the fact table

\* the song_df columns of a joined row with no catalog match
NoSong ==
    [song_id |-> NULL, title |-> NULL, artist_id |-> NULL,
     artist_name |-> NULL, duration |-> NULL]

\* (df.song == song_df.title) & (df.artist == song_df.artist_name)
\*   & (df.length == song_df.duration)
JoinCondition(e, s) ==
    SqlEq(e.song, s.title) /\ SqlEq(e.artist, s.artist_name)
        /\ SqlEq(e.length, s.duration)

\* a faulty variant of JoinRows: an inner join, unmatched events dropped
JoinRowsInner(e, sdf) ==
    LET Match(s) == JoinCondition(e, s)
        m == SelectSeq(sdf, Match)
    IN  [i \in 1..Len(m) |-> e @@ m[i]]

\* the rows a left outer join gives for one event: one per matching song_df
\* row, or one with NULL song_df columns when nothing matches
JoinRows(e, sdf) ==
    LET Match(s) == JoinCondition(e, s)
        m == SelectSeq(sdf, Match)
    IN  IF Len(m) = 0 THEN <<e @@ NoSong>>
        ELSE [i \in 1..Len(m) |-> e @@ m[i]]

\* df.join(song_df, ..., 'left_outer')
LeftOuterJoin(d, sdf) ==
    LET F[i \in 0..Len(d)] ==
            IF i = 0 THEN <<>> ELSE F[i-1] \o JoinRows(d[i], sdf)
    IN  F[Len(d)]

\* .select(monotonically_increasing_id().alias("songplay_id"), ...)
\*   .withColumn("month", ...).withColumn("year", ...): row i of a single
\* partition gets the id i - 1
SongplayCols(j, id) ==
    [songplay_id |-> id, start_time |-> j.start_time, user_id |-> j.userId,
     level |-> j.level, song_id |-> j.song_id, artist_id |-> j.artist_id,
     session_id |-> j.sessionId, location |-> j.location,
     user_agent |-> j.userAgent, month |-> month(j.start_time),
     year |-> year(j.start_time)]

\* songplays_table: d is df with start_time, v the rows of the view
SongplaysTable(d, v) ==
    LET j == DropDuplicates(LeftOuterJoin(d, SongDf(v)))
    IN  [i \in 1..Len(j) |-> SongplayCols(j[i], i - 1)]

\* ------------------------------------------------------------------ inputs

\* a row of song_data under song_schema; the latitude, longitude and
\* location columns are NULL throughout
SongRow(sid, t, aid, an, dur, n) ==
    [artist_id |-> aid, artist_latitude |-> NULL, artist_location |-> NULL,
     artist_longitude |-> NULL, artist_name |-> an, duration |-> dur,
     num_songs |-> n, song_id |-> sid, title |-> t, year |-> 2018]

\* a row of log_data under log_schema
LogRow(pg, sg, ar, len, uid, fn, lv, t) ==
    [artist |-> ar, auth |-> "Logged In", firstName |-> fn, gender |-> "F",
     itemInSession |-> 0, lastName |-> "Doe", length |-> len, level |-> lv,
     location |-> "Phoenix", method |-> "PUT", page |-> pg,
     registration |-> NULL, sessionId |-> 139, song |-> sg, status |-> 200,
     ts |-> t, userAgent |-> "Mozilla", userId |-> uid]

\* 1541121934796 as hi * 10^6 + lo
Ts0 == [hi |-> 1541121, lo |-> 934796]

\* every input of at most n rows drawn from D
SeqsUpTo(D, n) == UNION {[1..k -> D] : k \in 0..n}

\* --------------------------------------------------------------------- main

\* the statements of main, process_song_data and process_log_data that read,
\* write or register something, in program order
MainSteps ==
    <<"create_spark_session", "read_song_data", "write_songs_table",
      "write_artists_table", "create_temp_view", "read_log_data",
      "write_users_table", "add_start_time", "write_time_table",
      "write_songplays_table">>

\* the statement after statement p ("done" after the last)
After(p) ==
    LET i == CHOOSE k \in 1..Len(MainSteps) : MainSteps[k] = p
    IN  IF i = Len(MainSteps) THEN "done" ELSE MainSteps[i + 1]

Tables ==
    {"songs_table", "artists_table", "users_table", "time_table",
     "songplays_table"}

\* the directory a write statement writes ("none" for any other statement)
TableOf(p) ==
    CASE p = "write_songs_table" -> "songs_table"
      [] p = "write_artists_table" -> "artists_table"
      [] p = "write_users_table" -> "users_table"
      [] p = "write_time_table" -> "time_table"
      [] p = "write_songplays_table" -> "songplays_table"
      [] OTHER -> "none"

\* a faulty variant of Overwrite: mode('append')
OverwriteAppends(old, new) == old \o new

\* .write.mode('overwrite'): what the directory held is discarded
Overwrite(old, new) == new

\* what a directory may hold after its write raised: the old files (nothing
\* was deleted yet), or any part of the new ones
AfterFailedWrite(old, new) ==
    {old} \cup {SubSeq(new, 1, k) : k \in 0..Len(new)}

Init(SongInputs, LogInputs) ==
    /\ song_data \in SongInputs
    /\ log_data \in LogInputs
    /\ pc = MainSteps[1]
    /\ df_song = <<>>
    /\ view = NoView
    /\ df = <<>>
    /\ out = [t \in Tables |-> <<>>]
    /\ out0 = [t \in Tables |-> <<>>]
    /\ written = <<>>
    /\ failed_at = "none"
    /\ runs = 1

\* spark = create_spark_session()
CreateSparkSession ==
    /\ pc = "create_spark_session"
    /\ pc' = After(pc)
    /\ UNCHANGED <<song_data, log_data, df_song, view, df, out, out0,
                   written, failed_at, runs>>

\* df_song = spark.read.csv(song_data, schema=song_schema)
ReadSongData ==
    /\ pc = "read_song_data"
    /\ df_song' = song_data
    /\ pc' = After(pc)
    /\ UNCHANGED <<song_data, log_data, view, df, out, out0, written,
                   failed_at, runs>>

\* the statement at pc writes rows to its directory
Write(rows) ==
    /\ out' = [out EXCEPT ![TableOf(pc)] = Overwrite(@, rows)]
    /\ written' = Append(written, TableOf(pc))
    /\ pc' = After(pc)

\* songs_table.write.mode('overwrite').partitionBy('year', 'artist_id')
\*   .parquet(output_data + 'songs_table/')
WriteSongsTable ==
    /\ pc = "write_songs_table"
    /\ Write(SongsTable(df_song))
    /\ UNCHANGED <<song_data, log_data, df_song, view, df, out0, failed_at,
                   runs>>

\* artists_table.write.mode('overwrite').parquet(output_data + 'artists_table/')
WriteArtistsTable ==
    /\ pc = "write_artists_table"
    /\ Write(ArtistsTable(df_song))
    /\ UNCHANGED <<song_data, log_data, df_song, view, df, out0, failed_at,
                   runs>>

\* a faulty variant of CreateTempView: the view is not registered
CreateTempViewSkipped ==
    /\ pc = "create_temp_view"
    /\ pc' = After(pc)
    /\ UNCHANGED <<song_data, log_data, df_song, view, df, out, out0,
                   written, failed_at, runs>>

\* df_song.createOrReplaceTempView('df_song_table')
CreateTempView ==
    /\ pc = "create_temp_view"
    /\ view' = [registered |-> TRUE, rows |-> df_song]
    /\ pc' = After(pc)
    /\ UNCHANGED <<song_data, log_data, df_song, df, out, out0, written,
                   failed_at, runs>>

\* df = spark.read.json(log_data, schema=log_schema)
\* df = df.filter(df.page == 'NextSong')
ReadLogData ==
    /\ pc = "read_log_data"
    /\ df' = NextSongEvents(log_data)
    /\ pc' = After(pc)
    /\ UNCHANGED <<song_data, log_data, df_song, view, out, out0, written,
                   failed_at, runs>>

\* users_table.write.mode('overwrite').parquet(output_data + 'users_table/')
WriteUsersTable ==
    /\ pc = "write_users_table"
    /\ Write(UsersTable(df))
    /\ UNCHANGED <<song_data, log_data, df_song, view, df, out0, failed_at,
                   runs>>

\* df = df.withColumn('start_time', get_timestamp('ts'))
AddStartTimeColumn ==
    /\ pc = "add_start_time"
    /\ df' = AddStartTime(df)
    /\ pc' = After(pc)
    /\ UNCHANGED <<song_data, log_data, df_song, view, out, out0, written,
                   failed_at, runs>>

\* time_table.write.mode('overwrite').partitionBy('year', 'month')
\*   .parquet(output_data + 'time_table/')
WriteTimeTable ==
    /\ pc = "write_time_table"
    /\ Write(TimeTable(df))
    /\ UNCHANGED <<song_data, log_data, df_song, view, df, out0, failed_at,
                   runs>>

\* song_df = spark.sql('SELECT DISTINCT ... FROM df_song_table'), the join,
\* and songplays_table.write.mode('overwrite').partitionBy('year', 'month')
\*   .parquet(output_data + 'songplays_table/'); with no such view the query
\* raises (Fail)
WriteSongplaysTable ==
    /\ pc = "write_songplays_table"
    /\ view.registered
    /\ Write(SongplaysTable(df, view.rows))
    /\ UNCHANGED <<song_data, log_data, df_song, view, df, out0, failed_at,
                   runs>>

\* the rows the write statement p is about to write
Pending(p) ==
    CASE p = "write_songs_table" -> SongsTable(df_song)
      [] p = "write_artists_table" -> ArtistsTable(df_song)
      [] p = "write_users_table" -> UsersTable(df)
      [] p = "write_time_table" -> TimeTable(df)
      [] p = "write_songplays_table" ->
            IF view.registered THEN SongplaysTable(df, view.rows) ELSE <<>>

\* a faulty variant of Fail: the exception is swallowed and main goes on
FailSwallowed ==
    /\ pc \in Rows(MainSteps)
    /\ failed_at' = pc
    /\ pc' = After(pc)
    /\ UNCHANGED <<song_data, log_data, df_song, view, df, out, out0,
                   written, runs>>

\* the engine raises in the statement at pc: nothing catches it, the process
\* ends
Fail ==
    /\ pc \in Rows(MainSteps)
    /\ failed_at' = pc
    /\ pc' = "aborted"
    /\ IF TableOf(pc) = "none"
       THEN out' = out
       ELSE \E rows \in AfterFailedWrite(out[TableOf(pc)], Pending(pc)) :
                out' = [out EXCEPT ![TableOf(pc)] = rows]
    /\ UNCHANGED <<song_data, log_data, df_song, view, df, out0, written,
                   runs>>

\* the operator starts etl.py again, on whatever the input bucket now holds;
\* the new process has no session, DataFrame or view of the old one
Rerun(SongInputs, LogInputs) ==
    /\ pc \in {"done", "aborted"}
    /\ runs < MaxRuns
    /\ runs' = runs + 1
    /\ song_data' \in SongInputs
    /\ log_data' \in LogInputs
    /\ pc' = MainSteps[1]
    /\ df_song' = <<>>
    /\ view' = NoView
    /\ df' = <<>>
    /\ out0' = out
    /\ written' = <<>>
    /\ failed_at' = "none"
    /\ UNCHANGED out

\* one statement of a run of main
Step ==
    \/ CreateSparkSession
    \/ ReadSongData
    \/ WriteSongsTable
    \/ WriteArtistsTable
    \/ CreateTempView
    \/ ReadLogData
    \/ WriteUsersTable
    \/ AddStartTimeColumn
    \/ WriteTimeTable
    \/ WriteSongplaysTable

\* ---------------------------------------------- Spec: runs of main, in a row

S1 == SongRow("SOAAA", "Setanta matins", "ARAAA", "Elena", "269.58", 1)
S2 == SongRow("SOBBB", "Intro", "ARBBB", "Mogwai", "75.67", 1)
E1 == LogRow("NextSong", "Setanta matins", "Elena", "269.58", "8", "Kaylee", "free", Ts0)
E2 == LogRow("NextSong", "Intro", "Mogwai", "99.16", "26", "Ryan", "paid", [hi |-> 1541106, lo |-> 106796])
E3 == LogRow("Home", NULL, NULL, NULL, "8", "Kaylee", "free", [hi |-> 1541106, lo |-> 132796])

\* S2 again under another song_id: E4 matches both
S3 == SongRow("SOCCC", "Intro", "ARBBB", "Mogwai", "75.67", 2)
E4 == LogRow("NextSong", "Intro", "Mogwai", "75.67", "26", "Ryan", "free", Ts0)

RunSongInputs == {<<>>, <<S1>>, <<S2, S1, S2>>, <<S3, S2>>}
RunLogInputs == {<<E3>>, <<E1, E3, E2>>, <<E4, E2, E4>>}

Next == Step \/ Fail \/ Rerun(RunSongInputs, RunLogInputs)

Spec == Init(RunSongInputs, RunLogInputs) /\ [][Next]_vars

\* one run of main: its statements, any of which may raise
NextRun == Step \/ Fail

\* ------------------------- SpecCatalog: one run, over varied song catalogs

\* catalog rows that share identifiers and differ in titles, artist names
\* and the unselected num_songs
CatalogSongRows ==
    {SongRow(sid, t, "ARAAA", an, "269.58", n) :
        sid \in {"SOAAA", "SOBBB"}, t \in {"Intro", "Outro"},
        an \in {"Elena", "Elena M."}, n \in {1, 2}}

SpecCatalog ==
    Init(SeqsUpTo(CatalogSongRows, MaxSongRows), {<<E1, E3>>})
        /\ [][NextRun]_vars

\* ----------------------------- SpecLog: one run, over varied activity logs

Ts1 == [hi |-> 1541106, lo |-> 106796]

\* events of one user that differ in page, first name, level and ts
LogEventRows ==
    {LogRow(pg, "Intro", "Mogwai", "75.67", "8", fn, lv, t) :
        pg \in {"NextSong", "Home", NULL}, fn \in {"Kaylee", "Kayla"},
        lv \in {"free", "paid"}, t \in {Ts0, Ts1}}

SpecLog ==
    Init({<<S2>>}, SeqsUpTo(LogEventRows, MaxLogRows)) /\ [][NextRun]_vars

\* ------------------- SpecJoin: one run, over the columns the join compares

\* catalog rows with one title and artist name, under two song_ids, with
\* and without a duration
JoinSongRows ==
    {SongRow(sid, "Intro", "ARBBB", "Mogwai", dur, 1) :
        sid \in {"SOAAA", "SOBBB"}, dur \in {"75.67", NULL}}

JoinEventRows ==
    {LogRow("NextSong", sg, "Mogwai", len, "8", "Kaylee", "free", Ts0) :
        sg \in {"Intro", "Outro"}, len \in {"75.67", NULL}}
    \cup {E3}

SpecJoin ==
    Init(SeqsUpTo(JoinSongRows, MaxSongRows),
         SeqsUpTo(JoinEventRows, MaxLogRows))
        /\ [][NextRun]_vars

\* --------------------------------- SpecTime: one run, over varied ts values

\* 1541121934796; the epoch; either side of 2000-02-29, of 2021-01-01 and
\* of 2024-03-01; 2005-01-01 and 2018-12-31 (ISO weeks 53 and 1); the last
\* millisecond whose seconds fit 31 bits
TsSamples ==
    {Ts0, [hi |-> 0, lo |-> 0],
     [hi |-> 951782, lo |-> 399999], [hi |-> 951782, lo |-> 400000],
     [hi |-> 1609459, lo |-> 199999], [hi |-> 1609459, lo |-> 200000],
     [hi |-> 1709251, lo |-> 199999], [hi |-> 1709251, lo |-> 200000],
     [hi |-> 1104537, lo |-> 600000], [hi |-> 1546214, lo |-> 400000],
     [hi |-> 2147483, lo |-> 647999]}

TimeEventRows ==
    {LogRow("NextSong", "Intro", "Mogwai", "75.67", "8", "Kaylee", "free", t) :
        t \in TsSamples}

SpecTime ==
    Init({<<S2>>}, SeqsUpTo(TimeEventRows, MaxLogRows)) /\ [][NextRun]_vars

\* ================================================================== claims

\* the current run has written table t
Wrote(t) == \E i \in 1..Len(written) : written[i] = t

\* no two positions of s hold equal rows
NoEqualRows(s) == \A i, j \in 1..Len(s) : i # j => s[i] # s[j]

\* the events of the log input whose page is 'NextSong'
SongPlays == {e \in Rows(log_data) : e.page = "NextSong"}

\* timestamp st is the instant ts milliseconds after the epoch:
\* st.sec * 1000 + st.ms = ts.hi * 10^6 + ts.lo, in 32-bit arithmetic
SameInstant(st, ts) ==
    /\ st.ms \in 0..999
    /\ st.sec - ts.hi * 1000 \in 0..999
    /\ (st.sec - ts.hi * 1000) * 1000 + st.ms = ts.lo

\* Songplay row r carries the event fields of event e
FromEvent(r, e) ==
    /\ SameInstant(r.start_time, e.ts)
    /\ r.user_id = e.userId
    /\ r.level = e.level
    /\ r.session_id = e.sessionId
    /\ r.location = e.location
    /\ r.user_agent = e.userAgent

\* --------------------------------------------------------------------- C1

\* C1: the Songplay record set has exactly as many rows as the log input has
\* distinct events with page = 'NextSong', whatever the catalog holds.
C1_SongplayCount ==
    Wrote("songplays_table") =>
        Len(out.songplays_table) = Cardinality(SongPlays)

\* --------------------------------------------------------------------- C2

\* catalog row c is a match of event e: song = title, artist = artist_name
\* and length = duration, by the engine's equality
CatalogMatch(e, c) ==
    /\ SqlEq(e.song, c.title)
    /\ SqlEq(e.artist, c.artist_name)
    /\ SqlEq(e.length, c.duration)

\* C2: every NextSong event has a Songplay row; for each catalog row that
\* matches it there is a row of the event with that catalog row's song_id and
\* artist_id, both non-null; with no match there is a row of the event with
\* song_id and artist_id both null and the event fields of the event.
C2_LeftJoin ==
    Wrote("songplays_table") =>
        \A e \in SongPlays :
            /\ \E i \in 1..Len(out.songplays_table) :
                   FromEvent(out.songplays_table[i], e)
            /\ \A c \in Rows(song_data) :
                   CatalogMatch(e, c) =>
                       \E i \in 1..Len(out.songplays_table) :
                           LET r == out.songplays_table[i]
                           IN  /\ FromEvent(r, e)
                               /\ r.song_id # NULL /\ r.song_id = c.song_id
                               /\ r.artist_id # NULL
                               /\ r.artist_id = c.artist_id
            /\ (~ \E c \in Rows(song_data) : CatalogMatch(e, c)) =>
                   \E i \in 1..Len(out.songplays_table) :
                       LET r == out.songplays_table[i]
                       IN  /\ FromEvent(r, e)
                           /\ r.song_id = NULL /\ r.artist_id = NULL

\* a finished run with a matched and an unmatched NextSong event
C2_Witness ==
    /\ pc = "done"
    /\ \E e \in SongPlays : \E c \in Rows(song_data) : CatalogMatch(e, c)
    /\ \E e \in SongPlays : ~ \E c \in Rows(song_data) : CatalogMatch(e, c)
    /\ \E i, j \in 1..Len(out.songplays_table) :
           /\ out.songplays_table[i].song_id # NULL
           /\ out.songplays_table[j].song_id = NULL

\* --------------------------------------------------------------------- C3

\* C3: no two rows of the Song record set share a song_id and no two rows of
\* the Artist record set share an artist_id, whatever the catalog holds.
C3_UniqueIds ==
    /\ Wrote("songs_table") =>
           \A i, j \in 1..Len(out.songs_table) :
               i # j => out.songs_table[i].song_id # out.songs_table[j].song_id
    /\ Wrote("artists_table") =>
           \A i, j \in 1..Len(out.artists_table) :
               i # j =>
                   out.artists_table[i].artist_id # out.artists_table[j].artist_id

\* --------------------------------------------------------------------- C4

\* C4: no two rows of the User record set share a (user_id, level) pair,
\* whatever the log holds.
C4_UniqueUserLevel ==
    Wrote("users_table") =>
        \A i, j \in 1..Len(out.users_table) :
            i # j =>
                <<out.users_table[i].userId, out.users_table[i].level>>
                    # <<out.users_table[j].userId, out.users_table[j].level>>

\* --------------------------------------------------------------------- C5

\* C5: the Song and the Artist record set hold no two equal rows, and hold
\* exactly the distinct projected tuples of the catalog input.
C5_ExactRowDedup ==
    /\ Wrote("songs_table") =>
           /\ NoEqualRows(out.songs_table)
           /\ Rows(out.songs_table) = {SongCols(r) : r \in Rows(song_data)}
    /\ Wrote("artists_table") =>
           /\ NoEqualRows(out.artists_table)
           /\ Rows(out.artists_table) = {ArtistCols(r) : r \in Rows(song_data)}

\* both tables written from a catalog with two different raw rows that agree
\* on every Song column, and two that agree on every Artist column
C5_Witness ==
    /\ Wrote("songs_table") /\ Wrote("artists_table")
    /\ \E i, j \in 1..Len(song_data) :
           /\ song_data[i] # song_data[j]
           /\ SongCols(song_data[i]) = SongCols(song_data[j])
    /\ \E i, j \in 1..Len(song_data) :
           /\ song_data[i] # song_data[j]
           /\ ArtistCols(song_data[i]) = ArtistCols(song_data[j])
    /\ Len(out.songs_table) < Len(song_data)
    /\ Len(out.artists_table) < Len(song_data)

\* --------------------------------------------------------------------- C6

\* C6: every User, Time and Songplay row comes from an event whose page is
\* 'NextSong', and every such event has a row in each of the three tables.
C6_OnlyNextSong ==
    /\ Wrote("users_table") =>
           Rows(out.users_table) = {UserCols(e) : e \in SongPlays}
    /\ Wrote("time_table") =>
           /\ \A r \in Rows(out.time_table) :
                  \E e \in SongPlays : SameInstant(r.start_time, e.ts)
           /\ \A e \in SongPlays :
                  \E r \in Rows(out.time_table) : SameInstant(r.start_time, e.ts)
    /\ Wrote("songplays_table") =>
           /\ \A r \in Rows(out.songplays_table) :
                  \E e \in SongPlays : FromEvent(r, e)
           /\ \A e \in SongPlays :
                  \E r \in Rows(out.songplays_table) : FromEvent(r, e)

\* a finished run on a log with a NextSong event and an event whose page is
\* 'Home' or null
C6_Witness ==
    /\ pc = "done"
    /\ \E e \in Rows(log_data) : e.page = "NextSong"
    /\ \E e \in Rows(log_data) : e.page \in {"Home", NULL}
    /\ Len(out.users_table) = 1 /\ Len(out.time_table) = 1
    /\ Len(out.songplays_table) = 1

\* --------------------------------------------------------------------- C7

IsLeapYear(y) == y % 4 = 0 /\ (y % 100 # 0 \/ y % 400 = 0)

DaysInMonth(y, m) ==
    IF m = 2 THEN (IF IsLeapYear(y) THEN 29 ELSE 28)
    ELSE IF m \in {4, 6, 9, 11} THEN 30 ELSE 31

\* the days from 1970-01-01 to y-01-01, year by year
DaysBeforeYear(y) ==
    LET F[k \in 1970..y] ==
            IF k = 1970 THEN 0
            ELSE F[k-1] + (IF IsLeapYear(k - 1) THEN 366 ELSE 365)
    IN  F[y]

\* the days from y-01-01 to y-m-01, month by month
DaysBeforeMonth(y, m) ==
    LET F[k \in 1..m] == IF k = 1 THEN 0 ELSE F[k-1] + DaysInMonth(y, k - 1)
    IN  F[m]

\* the seconds from the epoch to y-m-d h:mi:s UTC
UtcSeconds(y, m, d, h, mi, s) ==
    (DaysBeforeYear(y) + DaysBeforeMonth(y, m) + d - 1) * 86400
        + h * 3600 + mi * 60 + s

\* Time row r holds the UTC calendar year, month, day and hour of its
\* start_time
UtcFields(r) ==
    /\ r.year \in 1970..2038
    /\ r.month \in 1..12
    /\ r.day \in 1..DaysInMonth(r.year, r.month)
    /\ r.hour \in 0..23
    /\ LET t == UtcSeconds(r.year, r.month, r.day, r.hour, 0, 0)
       IN  t <= r.start_time.sec /\ r.start_time.sec - t < 3600

\* every NextSong event has a Time row at the instant of its ts; every Time
\* row is at the instant of some NextSong event's ts and holds the UTC
\* fields of that instant; equal start_times make equal rows
C7_TimeRows ==
    /\ \A e \in SongPlays :
           \E r \in Rows(out.time_table) : SameInstant(r.start_time, e.ts)
    /\ \A r \in Rows(out.time_table) :
           /\ \E e \in SongPlays : SameInstant(r.start_time, e.ts)
           /\ UtcFields(r)
    /\ \A r1, r2 \in Rows(out.time_table) :
           r1.start_time = r2.start_time => r1 = r2

\* C7 as stated: start_time is the UTC instant ts milliseconds after the
\* epoch and the Time record holds its UTC calendar fields; for
\* ts = 1541121934796 that is 2018-11-01 21:05:34.796, year 2018, month 11,
\* day 1, hour 21.
C7_AsStated ==
    Wrote("time_table") =>
        /\ C7_TimeRows
        /\ \A r \in Rows(out.time_table) :
               SameInstant(r.start_time, Ts0) =>
                   /\ r.start_time.sec = UtcSeconds(2018, 11, 1, 21, 5, 34)
                   /\ r.start_time.ms = 796
                   /\ r.year = 2018 /\ r.month = 11 /\ r.day = 1
                   /\ r.hour = 21

\* C7, amended: as stated, but for ts = 1541121934796 the start_time is
\* 2018-11-02 01:25:34.796 UTC and the Time record has year 2018, month 11,
\* day 2, hour 1.
C7_UtcTime ==
    Wrote("time_table") =>
        /\ C7_TimeRows
        /\ \A r \in Rows(out.time_table) :
               SameInstant(r.start_time, Ts0) =>
                   /\ r.start_time.sec = UtcSeconds(2018, 11, 2, 1, 25, 34)
                   /\ r.start_time.ms = 796
                   /\ r.year = 2018 /\ r.month = 11 /\ r.day = 2
                   /\ r.hour = 1

\* the Time table written from a log that holds ts = 1541121934796 and a ts
\* on 2000-02-29
C7_Witness ==
    /\ Wrote("time_table")
    /\ \E r \in Rows(out.time_table) : SameInstant(r.start_time, Ts0)
    /\ \E r \in Rows(out.time_table) :
           r.year = 2000 /\ r.month = 2 /\ r.day = 29

\* --------------------------------------------------------------------- C8

\* the statements of process_log_data
LogLoaderSteps ==
    {"read_log_data", "write_users_table", "add_start_time",
     "write_time_table", "write_songplays_table"}

\* the Event-Log Loader has started in the current run
LogLoaderStarted ==
    pc \in LogLoaderSteps \cup {"done"} \/ failed_at \in LogLoaderSteps

\* C8: whenever the Event-Log Loader has started, the Song-Catalog Loader of
\* the same run has written its two tables and registered the view, and the
\* view holds the whole raw catalog read in that run.
C8_CatalogFirst ==
    LogLoaderStarted =>
        /\ Wrote("songs_table") /\ Wrote("artists_table")
        /\ view.registered
        /\ view.rows = song_data

\* a second run is about to query the view, over a catalog that differs from
\* the first run's
C8_Witness ==
    /\ runs = 2
    /\ pc = "write_songplays_table"
    /\ view.registered /\ view.rows # <<>>
    /\ out0.songs_table # <<>>
    /\ out0.songs_table # SongsTable(view.rows)

\* --------------------------------------------------------------------- C9

\* a Songplay table without its songplay_id column
NoIds(s) ==
    [i \in 1..Len(s) |->
        [c \in DOMAIN s[i] \ {"songplay_id"} |-> s[i][c]]]

\* C9: after a run that completed, each of the five tables holds exactly the
\* record set of that run's input (songplay_id values aside), whatever
\* earlier runs left.
C9_FullOverwrite ==
    pc = "done" =>
        LET plays == AddStartTime(NextSongEvents(log_data))
        IN  /\ out.songs_table = SongsTable(song_data)
            /\ out.artists_table = ArtistsTable(song_data)
            /\ out.users_table = UsersTable(NextSongEvents(log_data))
            /\ out.time_table = TimeTable(plays)
            /\ NoIds(out.songplays_table)
                   = NoIds(SongplaysTable(plays, song_data))

\* a second run completed over five non-empty tables of an earlier run, all
\* of which it replaced by something else
C9_Witness ==
    /\ pc = "done"
    /\ runs = 2
    /\ \A t \in Tables : out0[t] # <<>> /\ out0[t] # out[t]

\* -------------------------------------------------------------------- C10

WriteOrder ==
    <<"songs_table", "artists_table", "users_table", "time_table",
      "songplays_table">>

\* the record set the current run's input gives table t
Computed(t) ==
    LET plays == AddStartTime(NextSongEvents(log_data))
    IN  CASE t = "songs_table" -> SongsTable(song_data)
          [] t = "artists_table" -> ArtistsTable(song_data)
          [] t = "users_table" -> UsersTable(NextSongEvents(log_data))
          [] t = "time_table" -> TimeTable(plays)
          [] t = "songplays_table" -> SongplaysTable(plays, song_data)

\* the position of statement p in main
PositionOf(p) == CHOOSE k \in 1..Len(MainSteps) : MainSteps[k] = p

\* C10: the writes happen in the order songs, artists, users, time,
\* songplays; a failure ends the run: the tables written are those of the
\* write statements before the failing one, each holds the current run's
\* data, and each table whose write was not reached holds what it held when
\* the run started.
C10_AbortNoRollback ==
    /\ \E k \in 0..Len(WriteOrder) : written = SubSeq(WriteOrder, 1, k)
    /\ failed_at # "none" =>
           /\ pc = "aborted"
           /\ \A t \in Tables :
                  Wrote(t) <=>
                      \E q \in Rows(MainSteps) :
                          /\ TableOf(q) = t
                          /\ PositionOf(q) < PositionOf(failed_at)
           /\ \A t \in Tables :
                  /\ Wrote(t) => out[t] = Computed(t)
                  /\ (~ Wrote(t) /\ t # TableOf(failed_at)) => out[t] = out0[t]

\* a second run failed in its third write: two tables hold new data and the
\* last two hold the first run's, which differs from what this run computes
C10_Witness ==
    /\ runs = 2
    /\ pc = "aborted"
    /\ failed_at = "write_users_table"
    /\ out.songs_table # out0.songs_table
    /\ out.songplays_table # <<>>
    /\ out.songplays_table # Computed("songplays_table")

====
